---- MODULE Spec2Model ----
(***************************************************************************)
(* Model of the runtime shim RuntimeShim/src/sonified_llama_stub.c:        *)
(*   - the session lifecycle (llm_init / llm_free) and the process-wide    *)
(*     backend reference count g_backend_refs, run by several threads;     *)
(*   - one generation session (llm_eval / llm_cancel / llm_stats).         *)
(* The inference backend (the llama library) is external: each of its      *)
(* results is a nondeterministic choice among the outcomes its API allows. *)
(***************************************************************************)
EXTENDS Integers, Sequences, FiniteSets, TLC

(* ---- bounds of the model ---- *)
NThreads == 2       \* caller threads running llm_init / llm_free
MaxInit  == 3       \* llm_init calls made in one behaviour

MaxRuns  == 2       \* llm_eval calls made on the session in one behaviour
MaxGen   == 1       \* tokens the backend yields in a run of 128 max_tokens before an end of generation
MaxPrompt == 1      \* tokens a prompt tokenizes to, at most
MaxTok   == 1       \* largest opts->max_tokens a caller passes
MaxClock == 2       \* last reading of the monotonic clock, in ms
MaxLiveRuns == 1    \* llm_eval calls made in one behaviour of the fair specification

Threads == 1..NThreads
Handles == 1..MaxInit
NULL    == 0

(* ---- constants of the program ---- *)
DEFAULT_MAX_TOKENS == 128      \* line 204
RET_OK       == 0              \* lines 200, 249, 325
RET_ARGS     == -1             \* line 173
RET_HOOK     == -1             \* lines 183, 210
RET_TOKENIZE == -2             \* line 232
RET_PREFILL  == -3             \* line 260
RET_DECODE   == -4             \* line 294
BYTES_PER_MB == 1048576        \* lines 243, 318: 1024.0 * 1024.0
RSS_CADENCE  == 8              \* line 299: (gen_tokens & 7) == 0
RET_STATS    == -1             \* lines 346, 348

VARIABLES
    \* ---- lifecycle: process-wide state ----
    g_backend_refs,   \* static _Atomic int g_backend_refs
    backendUp,        \* TRUE between llama_backend_init and llama_backend_free
    nModels,          \* llama_model objects loaded and not yet freed
    nCtxs,            \* llama_context objects created and not yet freed
    handles,          \* the LLMContext objects ever allocated by llm_init
    ncalls,           \* llm_init calls made so far
    \* ---- lifecycle: per-thread position and locals ----
    pc,               \* where the thread is inside llm_init / llm_free
    lmodel,           \* llm_init's local `model` is a loaded model
    lctx,             \* llm_init's local `ctx` is a created context
    onStub,           \* the thread's current (or last) call ran on the stub path
    call,             \* the thread's current (or last) call
    ret,              \* what the thread's last llm_init returned
    lastCaller,       \* the thread that entered a call most recently (0: none yet)
    refs0,            \* g_backend_refs when that call was entered
    \* ---- the generation session (one LLMContext) ----
    st_model,         \* st->model != NULL: a real session, else a stub session
    force_stats_fail, \* st->force_stats_fail
    cancelFlag,       \* st->cancelFlag
    lastStats,        \* st->lastStats
    \* ---- llm_eval: position and locals of the generating thread ----
    epc,              \* where llm_eval is
    prompt,           \* prompt_utf8
    max_tokens,       \* const int max_tokens (line 204)
    t_start,          \* double t_start
    t_first,          \* double t_first; 0 while unset
    peak_rss,         \* size_t peak_rss
    prompt_token_count,
    produced,
    gen_tokens,
    canceled,
    eret,             \* what the last llm_eval returned
    \* ---- environment and observations ----
    clock,            \* the monotonic clock now_ms() reads
    sink,             \* the pieces the callback received in the current (or last) call
    runs,             \* llm_eval calls made so far
    stage,            \* how the last llm_eval ended: the failing stage, "completed" or "canceled"
    prevStage,        \* the same for the call before it
    prevRet,          \* what the call before the last returned
    stats0,           \* st->lastStats when the current (or last) call was entered
    flagAtEntry,      \* st->cancelFlag when the current (or last) call was entered
    cancelInFlight,   \* llm_cancel ran since the entry reset of the current call
    \* ---- llm_stats: position and locals of the reading thread ----
    rpc,              \* where llm_stats is
    rcall,            \* the current (or last) llm_stats call: "null" or "valid" arguments
    rold,             \* st->lastStats when that copy began
    out,              \* *out_stats, the caller's buffer
    sret              \* what the last llm_stats returned

lifeVars == <<g_backend_refs, backendUp, nModels, nCtxs, handles, ncalls,
              pc, lmodel, lctx, onStub, call, ret, lastCaller, refs0>>

sessVars == <<st_model, force_stats_fail, cancelFlag, lastStats>>

evalLocals == <<epc, prompt, max_tokens, t_start, t_first, peak_rss,
                prompt_token_count, produced, gen_tokens, canceled, eret>>

obsVars == <<clock, sink, runs, stage, prevStage, prevRet, stats0, flagAtEntry,
             cancelInFlight>>

evalVars == <<sessVars, evalLocals, obsVars>>

statVars == <<rpc, rcall, rold, out, sret>>

vars == <<lifeVars, evalVars, statVars>>

(* ---- llm_init ---- *)

Paths == {"NULL", "", "stub", "/dev/null", "model.gguf"}

\* line 90: !model_path || model_path[0] == '\0'
IsEmptyPath(p) == p = "NULL" \/ p = ""

\* line 95: strcmp(model_path,"stub") == 0 || strcmp(model_path,"/dev/null") == 0
IsStubPath(p) == p = "stub" \/ p = "/dev/null"

NoHandle == [st |-> "none", model |-> FALSE, ctx |-> FALSE]

FreshHandle ==
    CHOOSE h \in Handles :
        /\ handles[h].st = "none"
        /\ \A k \in Handles : k < h => handles[k].st # "none"

Enter(t, c, stub) ==
    /\ pc[t] = "idle"
    /\ call' = [call EXCEPT ![t] = c]
    /\ onStub' = [onStub EXCEPT ![t] = stub]
    /\ lastCaller' = t
    /\ refs0' = g_backend_refs

\* lines 90-93: empty or null path, return NULL
llm_init_empty(t) ==
    /\ ncalls < MaxInit
    /\ \E p \in Paths : IsEmptyPath(p)
    /\ Enter(t, "init_empty", FALSE)
    /\ ncalls' = ncalls + 1
    /\ ret' = [ret EXCEPT ![t] = NULL]
    /\ UNCHANGED <<g_backend_refs, backendUp, nModels, nCtxs, handles, pc, lmodel, lctx>>

\* lines 95-108: the stub session; calloc may fail
llm_init_stub(t) ==
    /\ ncalls < MaxInit
    /\ \E p \in Paths : ~IsEmptyPath(p) /\ IsStubPath(p)
    /\ Enter(t, "init_stub", TRUE)
    /\ ncalls' = ncalls + 1
    /\ \E ok \in BOOLEAN :
          IF ok
          THEN /\ handles' = [handles EXCEPT ![FreshHandle] =
                                 [st |-> "live", model |-> FALSE, ctx |-> FALSE]]
               /\ ret' = [ret EXCEPT ![t] = FreshHandle]
          ELSE /\ ret' = [ret EXCEPT ![t] = NULL]
               /\ UNCHANGED handles
    /\ UNCHANGED <<g_backend_refs, backendUp, nModels, nCtxs, pc, lmodel, lctx>>

\* line 110: atomic_fetch_add(&g_backend_refs, 1) == 0
llm_init_acquire(t) ==
    /\ ncalls < MaxInit
    /\ \E p \in Paths : ~IsEmptyPath(p) /\ ~IsStubPath(p)
    /\ Enter(t, "init_real", FALSE)
    /\ ncalls' = ncalls + 1
    /\ g_backend_refs' = g_backend_refs + 1
    /\ pc' = [pc EXCEPT ![t] = IF g_backend_refs = 0 THEN "init_backend_init"
                                                      ELSE "init_load"]
    /\ UNCHANGED <<backendUp, nModels, nCtxs, handles, lmodel, lctx, ret>>

\* line 112: llama_backend_init()
init_backend_init(t) ==
    /\ pc[t] = "init_backend_init"
    /\ backendUp' = TRUE
    /\ pc' = [pc EXCEPT ![t] = "init_load"]
    /\ UNCHANGED <<g_backend_refs, nModels, nCtxs, handles, ncalls, lmodel, lctx,
                   onStub, call, ret, lastCaller, refs0>>

\* lines 124-129: llama_load_model_from_file
init_load(t) ==
    /\ pc[t] = "init_load"
    /\ \E ok \in BOOLEAN :
          IF ok
          THEN /\ lmodel' = [lmodel EXCEPT ![t] = TRUE]
               /\ nModels' = nModels + 1
               /\ pc' = [pc EXCEPT ![t] = "init_ctx"]
          ELSE /\ pc' = [pc EXCEPT ![t] = "init_unref"]
               /\ UNCHANGED <<lmodel, nModels>>
    /\ UNCHANGED <<g_backend_refs, backendUp, nCtxs, handles, ncalls, lctx,
                   onStub, call, ret, lastCaller, refs0>>

\* CtxFailed with the llama_free_model(model) of line 144 forgotten
CtxFailed_NoFreeModel(t) ==
    /\ lmodel' = [lmodel EXCEPT ![t] = FALSE]
    /\ pc' = [pc EXCEPT ![t] = "init_unref"]
    /\ UNCHANGED <<lctx, nCtxs, nModels>>

\* lines 142-144: context creation failed, llama_free_model(model)
CtxFailed(t) ==
    /\ lmodel' = [lmodel EXCEPT ![t] = FALSE]
    /\ nModels' = nModels - 1
    /\ pc' = [pc EXCEPT ![t] = "init_unref"]
    /\ UNCHANGED <<lctx, nCtxs>>

\* lines 141-147: llama_new_context_with_model
init_ctx(t) ==
    /\ pc[t] = "init_ctx"
    /\ \E ok \in BOOLEAN :
          IF ok
          THEN /\ lctx' = [lctx EXCEPT ![t] = TRUE]
               /\ nCtxs' = nCtxs + 1
               /\ pc' = [pc EXCEPT ![t] = "init_alloc"]
               /\ UNCHANGED <<lmodel, nModels>>
          ELSE CtxFailed(t)
    /\ UNCHANGED <<g_backend_refs, backendUp, handles, ncalls,
                   onStub, call, ret, lastCaller, refs0>>

\* lines 149-163: calloc of the LLMContext, then return the handle
init_alloc(t) ==
    /\ pc[t] = "init_alloc"
    /\ \E ok \in BOOLEAN :
          IF ok
          THEN /\ handles' = [handles EXCEPT ![FreshHandle] =
                                 [st |-> "live", model |-> lmodel[t], ctx |-> lctx[t]]]
               /\ ret' = [ret EXCEPT ![t] = FreshHandle]
               /\ pc' = [pc EXCEPT ![t] = "idle"]
               /\ UNCHANGED <<nModels, nCtxs>>
          ELSE \* lines 152-153: llama_free(ctx); llama_free_model(model)
               /\ nCtxs' = nCtxs - 1
               /\ nModels' = nModels - 1
               /\ pc' = [pc EXCEPT ![t] = "init_unref"]
               /\ UNCHANGED <<handles, ret>>
    /\ lmodel' = [lmodel EXCEPT ![t] = FALSE]
    /\ lctx' = [lctx EXCEPT ![t] = FALSE]
    /\ UNCHANGED <<g_backend_refs, backendUp, ncalls, onStub, call, lastCaller, refs0>>

\* lines 127, 145, 154: atomic_fetch_sub(&g_backend_refs, 1) == 1
init_unref(t) ==
    /\ pc[t] = "init_unref"
    /\ g_backend_refs' = g_backend_refs - 1
    /\ IF g_backend_refs = 1
       THEN /\ pc' = [pc EXCEPT ![t] = "init_backend_free"]
            /\ UNCHANGED ret
       ELSE /\ pc' = [pc EXCEPT ![t] = "idle"]
            /\ ret' = [ret EXCEPT ![t] = NULL]
    /\ UNCHANGED <<backendUp, nModels, nCtxs, handles, ncalls, lmodel, lctx,
                   onStub, call, lastCaller, refs0>>

\* lines 127, 145, 154: llama_backend_free(); return NULL
init_backend_free(t) ==
    /\ pc[t] = "init_backend_free"
    /\ backendUp' = FALSE
    /\ pc' = [pc EXCEPT ![t] = "idle"]
    /\ ret' = [ret EXCEPT ![t] = NULL]
    /\ UNCHANGED <<g_backend_refs, nModels, nCtxs, handles, ncalls, lmodel, lctx,
                   onStub, call, lastCaller, refs0>>

(* ---- llm_free ---- *)

\* line 335: if (!h) return
llm_free_null(t) ==
    /\ Enter(t, "free_null", FALSE)
    /\ UNCHANGED <<g_backend_refs, backendUp, nModels, nCtxs, handles, ncalls,
                   pc, lmodel, lctx, ret>>

\* lines 336-339: llama_free(ctx->ctx); llama_free_model(ctx->model); free(ctx)
llm_free_release(t, h) ==
    /\ handles[h].st = "live"
    /\ Enter(t, "free", ~handles[h].model)
    /\ nCtxs' = IF handles[h].ctx THEN nCtxs - 1 ELSE nCtxs
    /\ nModels' = IF handles[h].model THEN nModels - 1 ELSE nModels
    /\ handles' = [handles EXCEPT ![h] = [st |-> "freed", model |-> FALSE, ctx |-> FALSE]]
    /\ pc' = [pc EXCEPT ![t] = "free_unref"]
    /\ UNCHANGED <<g_backend_refs, backendUp, ncalls, lmodel, lctx, ret>>

\* line 340: atomic_fetch_sub(&g_backend_refs, 1) == 1
free_unref(t) ==
    /\ pc[t] = "free_unref"
    /\ g_backend_refs' = g_backend_refs - 1
    /\ pc' = [pc EXCEPT ![t] = IF g_backend_refs = 1 THEN "free_backend_free" ELSE "idle"]
    /\ UNCHANGED <<backendUp, nModels, nCtxs, handles, ncalls, lmodel, lctx,
                   onStub, call, ret, lastCaller, refs0>>

\* line 341: llama_backend_free()
free_backend_free(t) ==
    /\ pc[t] = "free_backend_free"
    /\ backendUp' = FALSE
    /\ pc' = [pc EXCEPT ![t] = "idle"]
    /\ UNCHANGED <<g_backend_refs, nModels, nCtxs, handles, ncalls, lmodel, lctx,
                   onStub, call, ret, lastCaller, refs0>>

(* ---- the session as llm_init leaves it ---- *)

\* lines 106, 162: memset(&h->lastStats, 0, sizeof(h->lastStats))
ZeroStats ==
    [ttfb_ms |-> 0, tok_per_sec |-> 0, total_ms |-> 0, peak_rss_mb |-> 0,
     success |-> 0, prompt_tokens |-> 0, completion_tokens |-> 0, total_tokens |-> 0]

\* lines 96-106 (stub) and 149-162 (real): calloc zeroes the LLMContext, then
\* force_stats_fail = 0, model set or NULL, lastStats zeroed; no call has run
InitSession(m) ==
    /\ st_model = m
    /\ force_stats_fail = 0
    /\ cancelFlag = FALSE
    /\ lastStats = ZeroStats
    /\ epc = "idle"
    /\ prompt = "NULL"
    /\ max_tokens = 0
    /\ t_start = 0
    /\ t_first = 0
    /\ peak_rss = 0
    /\ prompt_token_count = 0
    /\ produced = 0
    /\ gen_tokens = 0
    /\ canceled = FALSE
    /\ eret = RET_OK
    /\ clock = 1
    /\ sink = << >>
    /\ runs = 0
    /\ stage = "none"
    /\ prevStage = "none"
    /\ prevRet = RET_OK
    /\ stats0 = ZeroStats
    /\ flagAtEntry = FALSE
    /\ cancelInFlight = FALSE
    /\ rpc = "idle"
    /\ rcall = "none"
    /\ rold = ZeroStats
    /\ out = ZeroStats
    /\ sret = RET_OK

(* ---- the lifecycle specifications ---- *)

InitLife ==
    /\ InitSession(FALSE)
    /\ g_backend_refs = 0
    /\ backendUp = FALSE
    /\ nModels = 0
    /\ nCtxs = 0
    /\ handles = [h \in Handles |-> NoHandle]
    /\ ncalls = 0
    /\ pc = [t \in Threads |-> "idle"]
    /\ lmodel = [t \in Threads |-> FALSE]
    /\ lctx = [t \in Threads |-> FALSE]
    /\ onStub = [t \in Threads |-> FALSE]
    /\ call = [t \in Threads |-> "none"]
    /\ ret = [t \in Threads |-> NULL]
    /\ lastCaller = 0
    /\ refs0 = 0

NextLife ==
    \E t \in Threads :
        \/ llm_init_empty(t) /\ UNCHANGED <<evalVars, statVars>>
        \/ llm_init_stub(t) /\ UNCHANGED <<evalVars, statVars>>
        \/ llm_init_acquire(t) /\ UNCHANGED <<evalVars, statVars>>
        \/ init_backend_init(t) /\ UNCHANGED <<evalVars, statVars>>
        \/ init_load(t) /\ UNCHANGED <<evalVars, statVars>>
        \/ init_ctx(t) /\ UNCHANGED <<evalVars, statVars>>
        \/ init_alloc(t) /\ UNCHANGED <<evalVars, statVars>>
        \/ init_unref(t) /\ UNCHANGED <<evalVars, statVars>>
        \/ init_backend_free(t) /\ UNCHANGED <<evalVars, statVars>>
        \/ llm_free_null(t) /\ UNCHANGED <<evalVars, statVars>>
        \/ \E h \in Handles : llm_free_release(t, h) /\ UNCHANGED <<evalVars, statVars>>
        \/ free_unref(t) /\ UNCHANGED <<evalVars, statVars>>
        \/ free_backend_free(t) /\ UNCHANGED <<evalVars, statVars>>

\* any interleaving of the threads' calls
SpecLife == InitLife /\ [][NextLife]_vars

\* one call at a time: a thread steps only while every other thread is idle
OthersIdle(t) == \A u \in Threads \ {t} : pc[u] = "idle"

NextSeq ==
    \E t \in Threads :
        \/ OthersIdle(t) /\ llm_init_empty(t) /\ UNCHANGED <<evalVars, statVars>>
        \/ OthersIdle(t) /\ llm_init_stub(t) /\ UNCHANGED <<evalVars, statVars>>
        \/ OthersIdle(t) /\ llm_init_acquire(t) /\ UNCHANGED <<evalVars, statVars>>
        \/ OthersIdle(t) /\ init_backend_init(t) /\ UNCHANGED <<evalVars, statVars>>
        \/ OthersIdle(t) /\ init_load(t) /\ UNCHANGED <<evalVars, statVars>>
        \/ OthersIdle(t) /\ init_ctx(t) /\ UNCHANGED <<evalVars, statVars>>
        \/ OthersIdle(t) /\ init_alloc(t) /\ UNCHANGED <<evalVars, statVars>>
        \/ OthersIdle(t) /\ init_unref(t) /\ UNCHANGED <<evalVars, statVars>>
        \/ OthersIdle(t) /\ init_backend_free(t) /\ UNCHANGED <<evalVars, statVars>>
        \/ OthersIdle(t) /\ llm_free_null(t) /\ UNCHANGED <<evalVars, statVars>>
        \/ \E h \in Handles : OthersIdle(t) /\ llm_free_release(t, h) /\ UNCHANGED <<evalVars, statVars>>
        \/ OthersIdle(t) /\ free_unref(t) /\ UNCHANGED <<evalVars, statVars>>
        \/ OthersIdle(t) /\ free_backend_free(t) /\ UNCHANGED <<evalVars, statVars>>

SpecSeq == InitLife /\ [][NextSeq]_vars

(* ======================= lifecycle claims ======================= *)

AllIdle == \A t \in Threads : pc[t] = "idle"

\* every handle llm_init returned has been passed to llm_free, and no call is running
AllFreed == AllIdle /\ \A h \in Handles : handles[h].st # "live"

BackendFreePcs == {"init_backend_free", "free_backend_free"}
PastAcquirePcs == {"init_load", "init_ctx", "init_alloc"}

\* C1: once every handle returned by llm_init has been freed (stub and real
\* alike, any interleaving), g_backend_refs is zero and the backend is down.
C1_RefcountRoundTrip ==
    AllFreed => (g_backend_refs = 0 /\ ~backendUp)

\* C2: no step of a stub-path call (llm_init on a sentinel path, llm_free of a
\* stub handle) changes g_backend_refs or the backend's up/down state, and none
\* reaches llama_backend_init or llama_backend_free.
C2_StubLeavesBackendAlone ==
    [][\A t \in Threads :
          (onStub'[t] /\ pc'[t] # pc[t]) =>
              /\ g_backend_refs' = g_backend_refs
              /\ backendUp' = backendUp
              /\ pc'[t] \notin (BackendFreePcs \cup {"init_backend_init"})]_vars

\* C3: the refcount check and the bring-up/teardown are one atomic transition:
\* a thread past the acquire step finds the backend up with no teardown
\* pending, llama_backend_init is not about to run on a backend that is up, and
\* llama_backend_free is not about to run while the count is positive.
C3_AcquireReleaseAtomic ==
    \A t \in Threads :
        /\ pc[t] \in PastAcquirePcs =>
              (backendUp /\ \A u \in Threads : pc[u] \notin BackendFreePcs)
        /\ pc[t] = "init_backend_init" => ~backendUp
        /\ pc[t] \in BackendFreePcs => g_backend_refs <= 0

\* the most recent call was an llm_init that has returned NULL
InitFailed ==
    /\ lastCaller \in Threads
    /\ pc[lastCaller] = "idle"
    /\ call[lastCaller] \in {"init_empty", "init_stub", "init_real"}
    /\ ret[lastCaller] = NULL

\* C4: a failed llm_init returns NULL with full rollback: the models and
\* contexts alive are exactly those owned by handles, g_backend_refs is back at
\* its value before the call and the backend is down if that value is zero;
\* every handle ever returned pairs a model with a context or has neither.
C4_InitRollback ==
    /\ InitFailed =>
          /\ g_backend_refs = refs0
          /\ (refs0 = 0 => ~backendUp)
          /\ ~lmodel[lastCaller] /\ ~lctx[lastCaller]
    /\ AllIdle =>
          /\ nModels = Cardinality({h \in Handles : handles[h].model})
          /\ nCtxs = Cardinality({h \in Handles : handles[h].ctx})
    /\ \A h \in Handles : handles[h].model = handles[h].ctx

\* a real llm_init that found the count at zero has failed and been rolled back
C4_Witness ==
    /\ InitFailed
    /\ call[lastCaller] = "init_real"
    /\ refs0 = 0
    /\ g_backend_refs = 0
    /\ ~backendUp

(* ======================= llm_eval / llm_cancel ======================= *)

Prompts == {"NULL", "", "hello", "CAUSE_EVAL_FAIL", "CAUSE_STATS_FAIL"}

\* the llm_gen_opts_t pointers a caller passes: NULL, or a struct with max_tokens
OptChoices ==
    {[null |-> TRUE, max_tokens |-> 0]} \cup
    {[null |-> FALSE, max_tokens |-> m] : m \in (0 - 1)..MaxTok}

\* line 204: (opts && opts->max_tokens > 0) ? opts->max_tokens : 128
EffectiveMaxTokens(o) ==
    IF ~o.null /\ o.max_tokens > 0 THEN o.max_tokens ELSE DEFAULT_MAX_TOKENS

\* lines 22-26: now_ms() reads a monotonic clock, which may have advanced
NowValues == {c \in {clock, clock + 1} : c <= MaxClock}

\* lines 28-33: current_rss_bytes(), the footprint of the process
RssValues == {3 * BYTES_PER_MB}

\* lines 238, 265, 301: if (rss > peak_rss) peak_rss = rss
MaxRss(a, b) == IF b > a THEN b ELSE a

\* lines 41-56: tokenize_prompt: -1 on failure, else the number of tokens; a
\* null prompt is tokenized as "", and an empty text yields only the special
\* tokens the model's vocabulary adds (none, or a BOS)
TokenizeResults(p) ==
    {0 - 1} \cup (IF p \in {"NULL", ""} THEN {0, 1} ELSE 1..MaxPrompt)

\* lines 190-198: the synthetic snapshot of a stub run
StubStats ==
    [ttfb_ms |-> 1, tok_per_sec |-> 100, total_ms |-> 1, peak_rss_mb |-> 1,
     success |-> 1, prompt_tokens |-> 0, completion_tokens |-> 1, total_tokens |-> 1]

\* lines 239-247: the snapshot of a run whose prompt has no tokens
EmptyStats(t_end, peak) ==
    [ttfb_ms |-> 0, tok_per_sec |-> 0, total_ms |-> t_end - t_start,
     peak_rss_mb |-> peak \div BYTES_PER_MB,
     success |-> 1, prompt_tokens |-> 0, completion_tokens |-> 0, total_tokens |-> 0]

\* FinalStats with line 319 storing success = 1 whether or not the run was canceled
FinalStats_AlwaysSuccess(t_end) ==
    [ttfb_ms |-> 0, tok_per_sec |-> 0, total_ms |-> t_end - t_start,
     peak_rss_mb |-> peak_rss \div BYTES_PER_MB,
     success |-> 1,
     prompt_tokens |-> prompt_token_count,
     completion_tokens |-> gen_tokens,
     total_tokens |-> prompt_token_count + gen_tokens]

\* FinalStats with line 322 storing the completion tokens alone as the total
FinalStats_TotalIsCompletion(t_end) ==
    [ttfb_ms |-> IF gen_tokens > 0 /\ t_first > 0 THEN t_first - t_start ELSE 0,
     tok_per_sec |-> 0, total_ms |-> t_end - t_start,
     peak_rss_mb |-> peak_rss \div BYTES_PER_MB,
     success |-> IF canceled THEN 0 ELSE 1,
     prompt_tokens |-> prompt_token_count,
     completion_tokens |-> gen_tokens,
     total_tokens |-> gen_tokens]

\* FinalStats with line 310 falling back to the end time when no first-token
\* time was recorded
FinalStats_TtfbFromEnd(t_end) ==
    [ttfb_ms |-> IF t_first > 0 THEN t_first - t_start ELSE t_end - t_start,
     tok_per_sec |-> 0, total_ms |-> t_end - t_start,
     peak_rss_mb |-> peak_rss \div BYTES_PER_MB,
     success |-> IF canceled THEN 0 ELSE 1,
     prompt_tokens |-> prompt_token_count,
     completion_tokens |-> gen_tokens,
     total_tokens |-> prompt_token_count + gen_tokens]

\* lines 308-322: the snapshot of a run that left the decode loop; tok_per_sec
\* is kept in whole tokens per second
FinalStats(t_end) ==
    LET total_ms  == t_end - t_start
        ttfb_ms   == IF gen_tokens > 0 /\ t_first > 0 THEN t_first - t_start ELSE 0
        decode_ms == IF gen_tokens > 0 /\ t_end > t_first THEN t_end - t_first ELSE 0
        tps       == IF gen_tokens > 0 /\ decode_ms > 0
                     THEN (gen_tokens * 1000) \div decode_ms ELSE 0
    IN [ttfb_ms |-> ttfb_ms, tok_per_sec |-> tps, total_ms |-> total_ms,
        peak_rss_mb |-> peak_rss \div BYTES_PER_MB,
        success |-> IF canceled THEN 0 ELSE 1,
        prompt_tokens |-> prompt_token_count,
        completion_tokens |-> gen_tokens,
        total_tokens |-> prompt_token_count + gen_tokens]

\* llm_eval returns `code` with outcome `stg`; its locals cease to exist
Return(code, stg) ==
    /\ epc' = "idle"
    /\ eret' = code
    /\ stage' = stg
    /\ prevStage' = stage
    /\ prevRet' = eret
    /\ max_tokens' = 0
    /\ t_start' = 0
    /\ t_first' = 0
    /\ peak_rss' = 0
    /\ prompt_token_count' = 0
    /\ produced' = 0
    /\ gen_tokens' = 0
    /\ canceled' = FALSE
    /\ stats0' = ZeroStats
    /\ flagAtEntry' = FALSE
    /\ cancelInFlight' = FALSE

retVars == <<eret, stage, prevStage, prevRet>>

entryVars == <<stats0, flagAtEntry, cancelInFlight>>

\* llm_eval_badargs with the reset of line 177 moved above the validation of line 171
llm_eval_badargs_ResetFirst ==
    /\ epc = "idle"
    /\ runs < MaxRuns
    /\ \E h_null, cb_null \in BOOLEAN : ~h_null /\ cb_null
    /\ runs' = runs + 1
    /\ cancelFlag' = FALSE
    /\ Return(RET_ARGS, "args")
    /\ UNCHANGED <<st_model, force_stats_fail, lastStats, prompt, clock, sink>>

\* lines 171-174: null handle or null callback
llm_eval_badargs ==
    /\ epc = "idle"
    /\ runs < MaxRuns
    /\ \E h_null, cb_null \in BOOLEAN : h_null \/ cb_null
    /\ runs' = runs + 1
    /\ Return(RET_ARGS, "args")
    /\ UNCHANGED <<sessVars, prompt, clock, sink>>

\* EntryReset with the atomic_store of line 177 forgotten
EntryReset_Missing == UNCHANGED cancelFlag

\* line 177: atomic_store(&st->cancelFlag, false)
EntryReset == cancelFlag' = FALSE

\* lines 171-177: arguments valid; the cancel flag is reset
llm_eval_enter ==
    /\ epc = "idle"
    /\ runs < MaxRuns
    /\ runs' = runs + 1
    /\ \E p \in Prompts, o \in OptChoices :
          /\ prompt' = p
          /\ max_tokens' = IF st_model THEN EffectiveMaxTokens(o) ELSE 0
    /\ EntryReset
    /\ epc' = IF st_model THEN "hooks" ELSE "stub"
    /\ sink' = << >>
    /\ stats0' = lastStats
    /\ flagAtEntry' = cancelFlag
    /\ cancelInFlight' = FALSE
    /\ UNCHANGED <<st_model, force_stats_fail, lastStats, t_start, t_first, peak_rss,
                   prompt_token_count, produced, gen_tokens, canceled, retVars, clock>>

\* HookFailed returning before the reset of force_stats_fail (lines 181, 208)
HookFailed_KeepsFlag ==
    /\ UNCHANGED force_stats_fail
    /\ Return(RET_HOOK, "hook")
    /\ UNCHANGED <<lastStats, sink, clock>>

\* lines 181-184, 208-211: force_stats_fail reset, then the CAUSE_EVAL_FAIL hook
HookFailed ==
    /\ force_stats_fail' = 0
    /\ Return(RET_HOOK, "hook")
    /\ UNCHANGED <<lastStats, sink, clock>>

\* eval_stub honouring the cancel flag: a canceled stub run emits nothing
eval_stub_HonoursCancel ==
    /\ epc = "stub"
    /\ IF prompt = "CAUSE_EVAL_FAIL"
       THEN HookFailed
       ELSE /\ force_stats_fail' = IF prompt = "CAUSE_STATS_FAIL" THEN 1 ELSE 0
            /\ sink' = IF cancelFlag THEN sink ELSE Append(sink, "ok")
            /\ lastStats' = IF cancelFlag THEN ZeroStats ELSE StubStats
            /\ Return(RET_OK, IF cancelFlag THEN "canceled" ELSE "completed")
            /\ UNCHANGED clock
    /\ UNCHANGED <<st_model, cancelFlag, prompt, runs>>

\* lines 180-201: the stub path
eval_stub ==
    /\ epc = "stub"
    /\ IF prompt = "CAUSE_EVAL_FAIL"
       THEN HookFailed
       ELSE /\ force_stats_fail' = IF prompt = "CAUSE_STATS_FAIL" THEN 1 ELSE 0
            /\ sink' = Append(sink, "ok")
            /\ lastStats' = StubStats
            /\ Return(RET_OK, "completed")
            /\ UNCHANGED clock
    /\ UNCHANGED <<st_model, cancelFlag, prompt, runs>>

\* lines 208-225: the test hooks, then the start of the metrics
eval_hooks ==
    /\ epc = "hooks"
    /\ IF prompt = "CAUSE_EVAL_FAIL"
       THEN HookFailed
       ELSE /\ force_stats_fail' = IF prompt = "CAUSE_STATS_FAIL" THEN 1 ELSE 0
            /\ \E now \in NowValues, rss \in RssValues :
                  /\ clock' = now
                  /\ t_start' = now
                  /\ peak_rss' = rss
            /\ epc' = "tokenize"
            /\ UNCHANGED <<lastStats, sink, max_tokens, t_first, prompt_token_count,
                           produced, gen_tokens, canceled, retVars, entryVars>>
    /\ UNCHANGED <<st_model, cancelFlag, prompt, runs>>

\* lines 230-233: tokenization failed
TokenizeFailed ==
    /\ Return(RET_TOKENIZE, "tokenize")
    /\ UNCHANGED <<lastStats, clock>>

\* lines 229-252: tokenize; an empty token sequence ends the run at once
eval_tokenize ==
    /\ epc = "tokenize"
    /\ \E n_prompt \in TokenizeResults(prompt) :
          IF n_prompt < 0 THEN TokenizeFailed
          ELSE IF n_prompt = 0
          THEN \E now \in NowValues, rss \in RssValues :
                  /\ clock' = now
                  /\ lastStats' = EmptyStats(now, MaxRss(peak_rss, rss))
                  /\ Return(RET_OK, "completed")
          ELSE /\ prompt_token_count' = n_prompt
               /\ epc' = "prefill"
               /\ UNCHANGED <<lastStats, clock, max_tokens, t_start, t_first, peak_rss,
                              produced, gen_tokens, canceled, retVars, entryVars>>
    /\ UNCHANGED <<st_model, force_stats_fail, cancelFlag, prompt, sink, runs>>

\* PrefillFailed returning the code of a tokenization failure
PrefillFailed_TokenizeCode ==
    /\ Return(RET_TOKENIZE, "prefill")
    /\ UNCHANGED lastStats

\* lines 257-261: the prefill decode failed
PrefillFailed ==
    /\ Return(RET_PREFILL, "prefill")
    /\ UNCHANGED lastStats

\* lines 255-270: prefill the prompt as one batch
eval_prefill ==
    /\ epc = "prefill"
    /\ \E ok \in BOOLEAN :
          IF ok
          THEN \E rss \in RssValues :
                  /\ peak_rss' = MaxRss(peak_rss, rss)
                  /\ epc' = "loop"
                  /\ UNCHANGED <<lastStats, max_tokens, t_start, t_first,
                                 prompt_token_count, produced, gen_tokens, canceled,
                                 retVars, entryVars>>
          ELSE PrefillFailed
    /\ UNCHANGED <<st_model, force_stats_fail, cancelFlag, prompt, clock, sink, runs>>

\* CancelCheck with the break of line 274 forgotten
CancelCheck_NoBreak ==
    /\ canceled' = (canceled \/ cancelFlag)
    /\ epc' = "sample"

\* CancelCheck with a continue in place of the break of line 274
CancelCheck_Continue ==
    IF cancelFlag
    THEN /\ canceled' = TRUE
         /\ epc' = "loop"
    ELSE /\ epc' = "sample"
         /\ UNCHANGED canceled

\* line 274: if (atomic_load(&st->cancelFlag)) { canceled = true; break; }
CancelCheck ==
    IF cancelFlag
    THEN /\ canceled' = TRUE
         /\ epc' = "finalize"
    ELSE /\ epc' = "sample"
         /\ UNCHANGED canceled

\* eval_loop with the condition of line 273 off by one: produced <= max_tokens
eval_loop_OffByOne ==
    /\ epc = "loop"
    /\ IF produced <= max_tokens
       THEN CancelCheck
       ELSE /\ epc' = "finalize"
            /\ UNCHANGED canceled
    /\ UNCHANGED <<sessVars, prompt, max_tokens, t_start, t_first, peak_rss,
                   prompt_token_count, produced, gen_tokens, eret, obsVars>>

\* lines 273-274: the loop condition, then the cooperative cancel check
eval_loop ==
    /\ epc = "loop"
    /\ IF produced < max_tokens
       THEN CancelCheck
       ELSE /\ epc' = "finalize"
            /\ UNCHANGED canceled
    /\ UNCHANGED <<sessVars, prompt, max_tokens, t_start, t_first, peak_rss,
                   prompt_token_count, produced, gen_tokens, eret, obsVars>>

\* lines 277-279: sample_greedy; a null token or an end of generation ends the
\* loop. In a run whose max_tokens is beyond MaxTok (the default of 128) the
\* backend yields at most MaxGen tokens before one of them.
eval_sample ==
    /\ epc = "sample"
    /\ \E tok \in {"null", "eog", "token"} :
          /\ (max_tokens > MaxTok /\ produced >= MaxGen) => tok # "token"
          /\ epc' = IF tok = "token" THEN "piece" ELSE "finalize"
    /\ UNCHANGED <<sessVars, prompt, max_tokens, t_start, t_first, peak_rss,
                   prompt_token_count, produced, gen_tokens, canceled, eret, obsVars>>

\* lines 282-287: llama_token_to_piece; a non-empty piece goes to the sink
eval_piece ==
    /\ epc = "piece"
    /\ \E nonempty \in BOOLEAN :
          IF nonempty
          THEN /\ \E now \in NowValues :
                     IF t_first = 0
                     THEN clock' = now /\ t_first' = now
                     ELSE UNCHANGED <<clock, t_first>>
               /\ sink' = Append(sink, "piece")
          ELSE UNCHANGED <<clock, t_first, sink>>
    /\ epc' = "decode"
    /\ UNCHANGED <<sessVars, prompt, max_tokens, t_start, peak_rss,
                   prompt_token_count, produced, gen_tokens, canceled, retVars,
                   runs, stats0, flagAtEntry, cancelInFlight>>

\* DecodeFailed storing the snapshot of the aborted run before returning
DecodeFailed_StoresStats ==
    /\ Return(RET_DECODE, "decode")
    /\ lastStats' = FinalStats(clock)

\* lines 291-295: the decode step failed
DecodeFailed ==
    /\ Return(RET_DECODE, "decode")
    /\ UNCHANGED lastStats

\* lines 290-302: feed the token back, count it
eval_decode ==
    /\ epc = "decode"
    /\ \E ok \in BOOLEAN :
          IF ok
          THEN /\ produced' = produced + 1
               /\ gen_tokens' = gen_tokens + 1
               /\ \E rss \in RssValues :
                     peak_rss' = IF (gen_tokens + 1) % RSS_CADENCE = 0
                                 THEN MaxRss(peak_rss, rss) ELSE peak_rss
               /\ epc' = "loop"
               /\ UNCHANGED <<lastStats, max_tokens, t_start, t_first,
                              prompt_token_count, canceled, retVars, entryVars>>
          ELSE DecodeFailed
    /\ UNCHANGED <<st_model, force_stats_fail, cancelFlag, prompt, clock, sink, runs>>

\* lines 305-325: finalize the metrics, store the snapshot, return 0
eval_finalize ==
    /\ epc = "finalize"
    /\ \E now \in NowValues :
          /\ clock' = now
          /\ lastStats' = FinalStats(now)
    /\ Return(RET_OK, IF canceled THEN "canceled" ELSE "completed")
    /\ UNCHANGED <<st_model, force_stats_fail, cancelFlag, prompt, sink, runs>>

\* lines 328-332: llm_cancel from another thread, at any time
llm_cancel ==
    /\ cancelFlag' = TRUE
    /\ cancelInFlight' = (epc # "idle")
    /\ UNCHANGED <<st_model, force_stats_fail, lastStats, evalLocals,
                   clock, sink, runs, stage, prevStage, prevRet, stats0, flagAtEntry>>

\* line 329: if (!h) return
llm_cancel_null ==
    /\ UNCHANGED evalVars

(* ---- the generation specification ---- *)

\* a session llm_init has just returned, stub or real
InitEval ==
    /\ \E m \in BOOLEAN : InitSession(m)
    /\ g_backend_refs = IF st_model THEN 1 ELSE 0
    /\ backendUp = st_model
    /\ nModels = IF st_model THEN 1 ELSE 0
    /\ nCtxs = IF st_model THEN 1 ELSE 0
    /\ handles = [h \in Handles |->
                    IF h = 1 THEN [st |-> "live", model |-> st_model, ctx |-> st_model]
                    ELSE NoHandle]
    /\ ncalls = 1
    /\ pc = [t \in Threads |-> "idle"]
    /\ lmodel = [t \in Threads |-> FALSE]
    /\ lctx = [t \in Threads |-> FALSE]
    /\ onStub = [t \in Threads |-> IF t = 1 THEN ~st_model ELSE FALSE]
    /\ call = [t \in Threads |-> IF t = 1
                                  THEN (IF st_model THEN "init_real" ELSE "init_stub")
                                  ELSE "none"]
    /\ ret = [t \in Threads |-> IF t = 1 THEN 1 ELSE NULL]
    /\ lastCaller = 1
    /\ refs0 = 0

NextEval ==
    \/ llm_eval_badargs /\ UNCHANGED <<lifeVars, statVars>>
    \/ llm_eval_enter /\ UNCHANGED <<lifeVars, statVars>>
    \/ eval_stub /\ UNCHANGED <<lifeVars, statVars>>
    \/ eval_hooks /\ UNCHANGED <<lifeVars, statVars>>
    \/ eval_tokenize /\ UNCHANGED <<lifeVars, statVars>>
    \/ eval_prefill /\ UNCHANGED <<lifeVars, statVars>>
    \/ eval_loop /\ UNCHANGED <<lifeVars, statVars>>
    \/ eval_sample /\ UNCHANGED <<lifeVars, statVars>>
    \/ eval_piece /\ UNCHANGED <<lifeVars, statVars>>
    \/ eval_decode /\ UNCHANGED <<lifeVars, statVars>>
    \/ eval_finalize /\ UNCHANGED <<lifeVars, statVars>>
    \/ llm_cancel /\ UNCHANGED <<lifeVars, statVars>>
    \/ llm_cancel_null /\ UNCHANGED <<lifeVars, statVars>>

Spec == InitEval /\ [][NextEval]_vars

\* the next step of the thread inside llm_eval
EvalStep ==
    \/ eval_stub
    \/ eval_hooks
    \/ eval_tokenize
    \/ eval_prefill
    \/ eval_loop
    \/ eval_sample
    \/ eval_piece
    \/ eval_decode
    \/ eval_finalize

\* llm_eval is synchronous on its calling thread and starts no thread of its
\* own: the thread keeps running, and each backend primitive and each sink
\* invocation it calls returns
NextLive ==
    \/ runs < MaxLiveRuns /\ llm_eval_badargs /\ UNCHANGED <<lifeVars, statVars>>
    \/ runs < MaxLiveRuns /\ llm_eval_enter /\ UNCHANGED <<lifeVars, statVars>>
    \/ eval_stub /\ UNCHANGED <<lifeVars, statVars>>
    \/ eval_hooks /\ UNCHANGED <<lifeVars, statVars>>
    \/ eval_tokenize /\ UNCHANGED <<lifeVars, statVars>>
    \/ eval_prefill /\ UNCHANGED <<lifeVars, statVars>>
    \/ eval_loop /\ UNCHANGED <<lifeVars, statVars>>
    \/ eval_sample /\ UNCHANGED <<lifeVars, statVars>>
    \/ eval_piece /\ UNCHANGED <<lifeVars, statVars>>
    \/ eval_decode /\ UNCHANGED <<lifeVars, statVars>>
    \/ eval_finalize /\ UNCHANGED <<lifeVars, statVars>>
    \/ llm_cancel /\ UNCHANGED <<lifeVars, statVars>>
    \/ llm_cancel_null /\ UNCHANGED <<lifeVars, statVars>>

SpecLive ==
    /\ InitEval
    /\ [][NextLive]_vars
    /\ WF_vars(EvalStep /\ UNCHANGED <<lifeVars, statVars>>)

(* ======================= llm_stats ======================= *)

\* sonified_llama.h lines 31-41: the fields of llm_stats_t in declaration order
StatFields ==
    <<"ttfb_ms", "tok_per_sec", "total_ms", "peak_rss_mb", "success",
      "prompt_tokens", "completion_tokens", "total_tokens">>

FieldIndex(f) == CHOOSE i \in 1..Len(StatFields) : StatFields[i] = f

\* a struct of which the first k fields come from a and the others from b
Mix(a, b, k) == [f \in DOMAIN a |-> IF FieldIndex(f) <= k THEN a[f] ELSE b[f]]

\* line 346: if (!h || !out_stats) return -1
llm_stats_null ==
    /\ rpc = "idle"
    /\ \E h_null, out_null \in BOOLEAN : h_null \/ out_null
    /\ rcall' = "null"
    /\ sret' = RET_STATS
    /\ UNCHANGED <<rpc, rold, out>>

\* lines 346-349: the arguments are valid; the forced failure, or else the
\* struct copy of line 349 begins on st->lastStats as it stands
llm_stats_begin ==
    /\ rpc = "idle"
    /\ rcall' = "valid"
    /\ IF force_stats_fail # 0
       THEN /\ sret' = RET_STATS
            /\ UNCHANGED <<rpc, rold, out>>
       ELSE /\ rold' = lastStats
            /\ rpc' = "copy"
            /\ UNCHANGED <<out, sret>>

\* lines 349-350: the struct copy ends, then return 0. The copy is a plain read
\* of a struct that llm_eval writes with a plain store (lines 199, 248, 324):
\* nothing orders the two, so a store made since the copy began landed after
\* some number k of the fields had been copied.
llm_stats_finish ==
    /\ rpc = "copy"
    /\ \E k \in 0..Len(StatFields) : out' = Mix(rold, lastStats, k)
    /\ sret' = RET_OK
    /\ rpc' = "idle"
    /\ rold' = ZeroStats
    /\ UNCHANGED rcall

\* the caller of llm_stats is done with the result of its last call
StatsConsumed ==
    IF rpc = "idle"
    THEN /\ out' = ZeroStats
         /\ sret' = RET_OK
         /\ rcall' = "none"
         /\ UNCHANGED <<rpc, rold>>
    ELSE UNCHANGED statVars

\* llm_eval, llm_cancel and llm_stats called on one session from any threads:
\* llm_stats runs while llm_eval does
NextStats ==
    \/ llm_eval_badargs /\ StatsConsumed /\ UNCHANGED lifeVars
    \/ llm_eval_enter /\ StatsConsumed /\ UNCHANGED lifeVars
    \/ eval_stub /\ UNCHANGED <<lifeVars, statVars>>
    \/ eval_hooks /\ UNCHANGED <<lifeVars, statVars>>
    \/ eval_tokenize /\ UNCHANGED <<lifeVars, statVars>>
    \/ eval_prefill /\ UNCHANGED <<lifeVars, statVars>>
    \/ eval_loop /\ UNCHANGED <<lifeVars, statVars>>
    \/ eval_sample /\ UNCHANGED <<lifeVars, statVars>>
    \/ eval_piece /\ UNCHANGED <<lifeVars, statVars>>
    \/ eval_decode /\ UNCHANGED <<lifeVars, statVars>>
    \/ eval_finalize /\ UNCHANGED <<lifeVars, statVars>>
    \/ llm_cancel /\ UNCHANGED <<lifeVars, statVars>>
    \/ llm_cancel_null /\ UNCHANGED <<lifeVars, statVars>>
    \/ llm_stats_null /\ UNCHANGED <<lifeVars, evalVars>>
    \/ llm_stats_begin /\ UNCHANGED <<lifeVars, evalVars>>
    \/ llm_stats_finish /\ UNCHANGED <<lifeVars, evalVars>>

SpecStats == InitEval /\ [][NextStats]_vars

\* the same calls, llm_eval and llm_stats one at a time
NextStatsSeq ==
    \/ rpc = "idle" /\ llm_eval_badargs /\ StatsConsumed /\ UNCHANGED lifeVars
    \/ rpc = "idle" /\ llm_eval_enter /\ StatsConsumed /\ UNCHANGED lifeVars
    \/ eval_stub /\ UNCHANGED <<lifeVars, statVars>>
    \/ eval_hooks /\ UNCHANGED <<lifeVars, statVars>>
    \/ eval_tokenize /\ UNCHANGED <<lifeVars, statVars>>
    \/ eval_prefill /\ UNCHANGED <<lifeVars, statVars>>
    \/ eval_loop /\ UNCHANGED <<lifeVars, statVars>>
    \/ eval_sample /\ UNCHANGED <<lifeVars, statVars>>
    \/ eval_piece /\ UNCHANGED <<lifeVars, statVars>>
    \/ eval_decode /\ UNCHANGED <<lifeVars, statVars>>
    \/ eval_finalize /\ UNCHANGED <<lifeVars, statVars>>
    \/ llm_cancel /\ UNCHANGED <<lifeVars, statVars>>
    \/ llm_cancel_null /\ UNCHANGED <<lifeVars, statVars>>
    \/ epc = "idle" /\ llm_stats_null /\ UNCHANGED <<lifeVars, evalVars>>
    \/ epc = "idle" /\ llm_stats_begin /\ UNCHANGED <<lifeVars, evalVars>>
    \/ epc = "idle" /\ llm_stats_finish /\ UNCHANGED <<lifeVars, evalVars>>

SpecStatsSeq == InitEval /\ [][NextStatsSeq]_vars

(* ======================= generation claims ======================= *)

\* the step on which an llm_eval call returns
Returning == epc' = "idle" /\ (epc # "idle" \/ runs' # runs)

FailedStages == {"args", "hook", "tokenize", "prefill", "decode"}

\* C5: a real-model run whose decode loop observed the cancel flag goes straight
\* to finalization, returns 0 and stores a snapshot with success 0; every
\* snapshot stored by a run that was not stopped by the flag has success 1.
C5_CancelIsNotAnError ==
    /\ canceled => (st_model /\ epc = "finalize")
    /\ stage = "canceled" => (eret = RET_OK /\ lastStats.success = 0)
    /\ stage = "completed" => (eret = RET_OK /\ lastStats.success = 1)

\* a real run was canceled after one token and has returned
C5_Witness ==
    /\ epc = "idle"
    /\ stage = "canceled"
    /\ lastStats.completion_tokens = 1
    /\ lastStats.success = 0

\* C6: when the loop check of iteration k finds the cancel flag set, the loop is
\* left at once; from then on the run samples nothing, decodes nothing and
\* leaves the sink alone, the pieces of the iterations before k stand, and the
\* run returns 0 with completion_tokens = k and success 0 (k = 0: an empty sink).
C6_CancelOrdering ==
    /\ [][(epc = "loop" /\ epc' # "loop" /\ produced < max_tokens /\ cancelFlag)
             => (canceled' /\ epc' = "finalize" /\ produced' = produced /\ sink' = sink)]_vars
    /\ [][canceled =>
             /\ sink' = sink
             /\ epc' \in {"finalize", "idle"}
             /\ epc' = "finalize" => (produced' = produced /\ gen_tokens' = gen_tokens)
             /\ epc' = "idle" =>
                   /\ eret' = RET_OK
                   /\ lastStats'.completion_tokens = produced
                   /\ lastStats'.success = 0
                   /\ Len(sink') <= produced]_vars

\* the check of iteration 1 found the flag set: the piece of iteration 0 stands
C6_Witness ==
    /\ epc = "idle"
    /\ stage = "canceled"
    /\ Len(sink) = 1
    /\ lastStats.completion_tokens = 1

\* C7: a cancel issued outside a generation call never reaches a later call:
\* while a call is in flight the flag is set only if llm_cancel ran after that
\* call's entry reset, so only such a cancel can stop its decode loop.
C7_CancelOutsideRunIsInert ==
    /\ (epc # "idle" /\ cancelFlag) => cancelInFlight
    /\ canceled => cancelInFlight

\* a call entered with the flag set by an earlier cancel left its decode loop
\* uncanceled after producing a token
C7_Witness ==
    /\ epc = "finalize"
    /\ flagAtEntry
    /\ ~cancelInFlight
    /\ ~canceled
    /\ gen_tokens > 0

\* C8: a call that returns a failure code leaves lastStats as it was when the
\* call was entered, and no call touches lastStats before it returns.
C8_FailureKeepsStats ==
    /\ [](epc # "idle" => lastStats = stats0)
    /\ [][(Returning /\ eret' < 0)
             => lastStats' = (IF epc = "idle" THEN lastStats ELSE stats0)]_vars

\* a decode step failed after a piece was streamed, and the snapshot of the
\* earlier run is still the stored one
C8_Witness ==
    /\ epc = "idle"
    /\ stage = "decode"
    /\ Len(sink) > 0
    /\ lastStats # ZeroStats

Stages4 == {"args", "tokenize", "prefill", "decode"}

\* C9: invalid arguments, tokenization, prefill and decode-step failures each
\* return their own non-zero code: two calls failing at different stages return
\* different codes, two failing at the same stage the same code, and 0 is
\* returned only by runs that stored a snapshot (completed or canceled).
C9_DistinctFailureCodes ==
    /\ stage \in FailedStages => eret # RET_OK
    /\ (stage \in Stages4 /\ prevStage \in Stages4 /\ stage # prevStage) => eret # prevRet
    /\ (stage \in Stages4 /\ prevStage = stage) => eret = prevRet
    /\ (stage # "none" /\ eret = RET_OK) => stage \in {"completed", "canceled"}

\* a prefill failure followed by a decode-step failure
C9_Witness ==
    /\ epc = "idle"
    /\ prevStage = "prefill"
    /\ stage = "decode"

\* C10: a call with a null handle or a null callback returns the argument-error
\* code at once: the cancel flag, force_stats_fail and lastStats keep their
\* values, the sink is not invoked and no stage of the run is entered.
C10_BadArgsNoMutation ==
    [][(Returning /\ stage' = "args")
          => /\ epc = "idle"
             /\ eret' = RET_ARGS
             /\ cancelFlag' = cancelFlag
             /\ force_stats_fail' = force_stats_fail
             /\ lastStats' = lastStats
             /\ sink' = sink
             /\ clock' = clock]_vars

\* the call was refused on a session whose three fields all differ from their
\* initial values
C10_Witness ==
    /\ epc = "idle"
    /\ stage = "args"
    /\ eret = RET_ARGS
    /\ cancelFlag
    /\ force_stats_fail = 1
    /\ lastStats # ZeroStats

\* the last llm_eval call passed argument validation and has returned
ValidatedReturned == epc = "idle" /\ stage \notin {"none", "args"}

\* C11: after an llm_eval call given the empty prompt has returned, on a stub
\* or a real session, it returned 0, the sink received nothing, and the stored
\* snapshot has completion_tokens, ttfb_ms and tok_per_sec all zero.
C11_EmptyPromptSucceeds ==
    (ValidatedReturned /\ prompt = "")
        => /\ eret = RET_OK
           /\ sink = << >>
           /\ lastStats.completion_tokens = 0
           /\ lastStats.ttfb_ms = 0
           /\ lastStats.tok_per_sec = 0

\* C12: in every state of the session (fresh, after stub runs, empty-prompt
\* runs, completed, canceled and failed runs) the stored snapshot satisfies
\* total_tokens = prompt_tokens + completion_tokens.
C12_TokenAccounting ==
    lastStats.total_tokens = lastStats.prompt_tokens + lastStats.completion_tokens

\* a real run stored a snapshot with prompt and completion tokens
C12_Witness ==
    /\ epc = "idle"
    /\ lastStats.prompt_tokens = 1
    /\ lastStats.completion_tokens = 1
    /\ lastStats.total_tokens = 2

\* C13: in every stored snapshot, completion_tokens = 0 implies tok_per_sec = 0
\* and ttfb_ms = 0 (runs canceled before the first token, runs ended by the
\* first sampled token, empty-prompt runs).
C13_NoTokensNoRates ==
    lastStats.completion_tokens = 0
        => (lastStats.tok_per_sec = 0 /\ lastStats.ttfb_ms = 0)

\* a real run that took time was canceled before its first token
C13_Witness ==
    /\ st_model
    /\ epc = "idle"
    /\ stage = "canceled"
    /\ lastStats.completion_tokens = 0
    /\ lastStats.total_ms > 0

\* C14: on a stub session a validated call fails only on the CAUSE_EVAL_FAIL
\* hook; with any other prompt it invokes the sink exactly once with "ok",
\* returns 0 and stores the synthetic snapshot (completion_tokens 1,
\* prompt_tokens 0, total_tokens 1, success 1), whatever max_tokens and the
\* options are and whether or not llm_cancel ran before or during the call.
C14_StubRun ==
    (~st_model /\ ValidatedReturned) =>
        /\ stage \in {"hook", "completed"}
        /\ stage = "hook" <=> prompt = "CAUSE_EVAL_FAIL"
        /\ stage = "completed" =>
              /\ eret = RET_OK
              /\ sink = <<"ok">>
              /\ lastStats.completion_tokens = 1
              /\ lastStats.prompt_tokens = 0
              /\ lastStats.total_tokens = 1
              /\ lastStats.success = 1

\* a stub call given the empty prompt has returned, and llm_cancel has run since
\* its entry reset
C14_Witness ==
    /\ ~st_model
    /\ ValidatedReturned
    /\ prompt = ""
    /\ cancelFlag
    /\ runs = 1
    /\ sink = <<"ok">>

\* the values line 204 can give max_tokens: a positive opts->max_tokens, else 128
EffectiveValues ==
    {DEFAULT_MAX_TOKENS} \cup
    {o.max_tokens : o \in {c \in OptChoices : ~c.null /\ c.max_tokens > 0}}

\* C17: in a real-model run max_tokens is the caller's positive opts->max_tokens
\* or else 128; the tokens counted and the sink invocations never exceed it, the
\* token count is the count of decode steps that succeeded in the loop, and the
\* completion_tokens stored at the end is that count.
C17_MaxTokensBound ==
    /\ []((st_model /\ epc # "idle") =>
             /\ max_tokens \in EffectiveValues
             /\ max_tokens >= 1
             /\ gen_tokens = produced
             /\ produced <= max_tokens
             /\ Len(sink) <= max_tokens)
    /\ [][(epc = "decode" /\ epc' = "loop") <=> produced' = produced + 1]_vars
    /\ [][(epc = "finalize" /\ epc' = "idle") =>
             /\ lastStats'.completion_tokens = produced
             /\ lastStats'.completion_tokens <= max_tokens
             /\ Len(sink') <= max_tokens]_vars

\* the decode loop was left because produced reached max_tokens, every piece
\* having gone to the sink
C17_Witness ==
    /\ epc = "finalize"
    /\ ~canceled
    /\ produced = max_tokens
    /\ Len(sink) = max_tokens

\* C20: the tok_per_sec a real-model run stores is non-zero only if the run
\* recorded a first-token time (a non-empty piece reached the sink), and is then
\* computed over end time minus that time; a run whose counted tokens all
\* detokenized to empty pieces stores tok_per_sec = 0 and ttfb_ms = 0.
C20_RateNeedsFirstToken ==
    [][(epc = "finalize" /\ epc' = "idle") =>
          /\ lastStats'.tok_per_sec # 0 =>
                /\ t_first > 0
                /\ sink # << >>
                /\ lastStats'.tok_per_sec = (gen_tokens * 1000) \div (clock' - t_first)
          /\ (gen_tokens > 0 /\ sink = << >>) =>
                (lastStats'.tok_per_sec = 0 /\ lastStats'.ttfb_ms = 0)]_vars

(* ======================= sequential lifecycle ======================= *)

\* the real-model sessions llm_init returned that llm_free has not been given
LiveReal == {h \in Handles : handles[h].st = "live" /\ handles[h].model}

\* C19: with llm_init and llm_free called one at a time on any mix of stub and
\* real handles, g_backend_refs is never negative, equals the number of live
\* real-model sessions between calls, and the backend is up whenever a
\* real-model session is live.
C19_SequentialRefcount ==
    /\ g_backend_refs >= 0
    /\ AllIdle => g_backend_refs = Cardinality(LiveReal)
    /\ LiveReal # {} => backendUp

(* ======================= statistics claims ======================= *)

\* the llm_stats call made last had valid arguments and has returned
StatsReturned == rpc = "idle" /\ rcall = "valid"

\* no run has finalized: no call was made, or one call, which failed
NeverFinalized == stage \in ({"none"} \cup FailedStages) /\ prevStage = "none"

\* C15: llm_stats with valid arguments returns failure exactly when the most
\* recent llm_eval call that passed argument validation had the prompt
\* CAUSE_STATS_FAIL, whether that call succeeded (stub or real) or failed, and
\* otherwise returns 0 with the stored snapshot, all zeros if no run has
\* finalized; the struct copy is reached only when no failure is forced.
C15_ForcedStatsFailure ==
    /\ epc = "idle" => (force_stats_fail # 0 <=> prompt = "CAUSE_STATS_FAIL")
    /\ rpc = "copy" => prompt # "CAUSE_STATS_FAIL"
    /\ StatsReturned =>
          /\ sret \in {RET_OK, RET_STATS}
          /\ sret = RET_STATS <=> prompt = "CAUSE_STATS_FAIL"
          /\ sret = RET_OK => out = lastStats
          /\ (sret = RET_OK /\ NeverFinalized) => out = ZeroStats

\* a stub run with the hook prompt succeeded and the llm_stats after it failed,
\* the run before it having failed on the other hook
C15_Witness ==
    /\ ~st_model
    /\ StatsReturned
    /\ sret = RET_STATS
    /\ prevStage = "hook"
    /\ stage = "completed"
    /\ eret = RET_OK
    /\ prompt = "CAUSE_STATS_FAIL"

\* C16: an llm_stats call running concurrently with llm_eval returns either the
\* complete snapshot stored when its copy began or the complete snapshot stored
\* when it ended, never a mixture of fields of the two, so what it returns
\* satisfies total_tokens = prompt_tokens + completion_tokens.
C16_SnapshotAtomic ==
    [][(rpc = "copy" /\ rpc' = "idle") =>
          /\ out' \in {rold, lastStats}
          /\ out'.total_tokens = out'.prompt_tokens + out'.completion_tokens]_vars

(* ======================= termination ======================= *)

\* the order of the stages: Idle, Tokenizing, Prefilling, Decoding, and back to Idle
StageOrder ==
    {<<"idle", "stub">>, <<"idle", "hooks">>, <<"stub", "idle">>,
     <<"hooks", "tokenize">>, <<"hooks", "idle">>,
     <<"tokenize", "prefill">>, <<"tokenize", "idle">>,
     <<"prefill", "loop">>, <<"prefill", "idle">>,
     <<"loop", "sample">>, <<"loop", "finalize">>,
     <<"sample", "piece">>, <<"sample", "finalize">>,
     <<"piece", "decode">>,
     <<"decode", "loop">>, <<"decode", "idle">>,
     <<"finalize", "idle">>}

\* C18: every llm_eval call that passed argument validation returns, whether or
\* not llm_cancel is ever called; until then it moves through the stages in
\* their order only, and it returns with exactly one outcome: completed,
\* canceled, or the stage that failed.
C18_EvalTerminates ==
    /\ [](epc # "idle" => <>(epc = "idle"))
    /\ [][epc' # epc => <<epc, epc'>> \in StageOrder]_vars
    /\ [][(epc # "idle" /\ epc' = "idle") =>
             /\ stage' \in {"completed", "canceled"} \cup (FailedStages \ {"args"})
             /\ stage' \in {"completed", "canceled"} <=> eret' = RET_OK
             /\ stage' = "canceled" <=> canceled]_vars

\* a real run went through the decode loop with the default max_tokens and has
\* returned completed, llm_cancel never called
C18_Witness ==
    /\ st_model
    /\ epc = "idle"
    /\ stage = "completed"
    /\ ~cancelFlag
    /\ lastStats.completion_tokens = MaxGen
    /\ runs = 1

====
